---- MODULE Spec2Model ----
(***************************************************************************)
(* The service lifecycle of go-micro's service.go: Init behind a sync.Once, *)
(* Start and Stop with their hook chains, Run with the auth account         *)
(* registration and the wait on an OS signal or the context.                *)
(*                                                                          *)
(* One thread (Main) drives Init, Start, Stop and Run in any order; the     *)
(* other threads call Init, concurrently with each other.                   *)
(***************************************************************************)
EXTENDS Integers, Sequences, FiniteSets, TLC

\* ------------------------------------------------------------------ bounds

\* Threads calling Init besides the main thread.
NumCallers == 3
\* Calls each thread makes to the service.
MaxCalls == 2
\* Hooks registered per phase: the four phases have as many hooks as each other,
\* from none to MaxHooks.
MaxHooks == 2
\* Options passed to one Init call.
MaxOpts == 2
\* Length of the server names taken from every string over NameChars.
MaxNameLen == 4

\* ------------------------------------------------------------ value domains

Procs == 0..NumCallers
Main == CHOOSE p \in Procs : \A q \in Procs : p <= q

\* An error value: the step that produced it. Nil is Go's nil error.
Nil == <<"nil", "">>
Err(kind, who) == <<kind, who>>

\* The hooks of a phase, in registration order.
HookNames == <<"A", "B", "C", "D">>
Hooks(n) == SubSeq(HookNames, 1, n)

\* The collaborators Init cross-wires with the client.
Collaborators == {"auth", "registry", "runtime", "store"}

\* Values of the MICRO_PLUGIN environment variable, as character sequences.
PluginEnvs == { <<>>, <<"a">>, <<"a", ",", ",", "b">> }

\* The server names (Server.Options().Name).
Names == { <<"f", "o", "o">> }

\* The names the role of the auth account is computed for: the ones the
\* documentation gives, names holding both substrings, and every string of up
\* to MaxNameLen of the letters of "api" and "web".
NameChars == {"a", "p", "i", "w", "e", "b"}
RoleNames ==
  { <<"f", "o", "o", "-", "a", "p", "i">>,
    <<"f", "o", "o", "-", "w", "e", "b">>,
    <<"f", "o", "o">>,
    <<"w", "e", "b", "f", "o", "o">>,
    <<"w", "e", "b", "-", "a", "p", "i">>,
    <<"a", "p", "i", "w", "e", "b">> }
  \cup UNION { [1..n -> NameChars] : n \in 0..MaxNameLen }

VARIABLES
  opts,        \* s.opts: Signal, Profile, the four hook lists, the wrapped Client and
               \* the handler wrappers of the Server
  ctxDone,     \* s.opts.Context is cancelled
  once,        \* s.once: done flag and the holder of its mutex
  exited,      \* the process has exited (logger.Fatal, or an unhandled signal)
  pc,          \* each thread's position
  calls,       \* calls each thread has made
  doneAtCall,  \* once.done as it was when the thread's Init call began
  initOpts,    \* the options of the main thread's Init call that has begun and has
               \* not yet reached s.once.Do
  name,        \* Server.Options().Name
  cmdName,     \* Cmd.App().Name
  plugins,     \* strings.Split(os.Getenv("MICRO_PLUGIN"), ",") of the running Init
  plugIdx,     \* position of the plugin loop
  fx,          \* what the one-time sequence has done so far
  top,         \* the call Main is in: Init, Start, Stop, Run or none
  idx,         \* position of the running hook loop
  gerr,        \* Stop's gerr
  ret,         \* value the finished call returned
  stopRet,     \* value the Stop called by Run returned
  log,         \* steps of Main's running call, in order
  ch,          \* signals buffered in Run's channel ch (capacity 1)
  notified,    \* Run's ch is registered with signal.Notify
  sigHandled,  \* some channel has been registered with signal.Notify
  profiling,   \* Run has started the profiler and deferred its Stop
  srvRunning,  \* the server is started and not stopped
  debugHandler,\* times the debug handler was registered: once by each Run call
  auth         \* the auth collaborator: the role last asked for, accounts generated,
               \* tokens issued, tokens installed

initVars == <<once, doneAtCall, initOpts, cmdName, plugins, plugIdx, fx>>
lifeVars == <<top, idx, gerr, ret, stopRet, log, ch, notified, sigHandled,
              profiling, srvRunning, debugHandler, auth>>
vars == <<opts, ctxDone, exited, pc, calls, name, initVars, lifeVars>>

\* ----------------------------------------------------------------- helpers

\* strings.Split(s, ","): the pieces of s between the separators; one piece, the
\* empty one, for the empty string.
RECURSIVE Split(_, _)
Split(s, acc) ==
  IF s = <<>> THEN <<acc>>
  ELSE IF Head(s) = "," THEN <<acc>> \o Split(Tail(s), <<>>)
  ELSE Split(Tail(s), Append(acc, Head(s)))

\* An option of Init: a function on the options. HandleSignal(b) sets Signal.
OptionSet == { [field |-> "Signal", value |-> b] : b \in BOOLEAN }
ApplyOption(o, os) == [os EXCEPT !.Signal = o.value]

\* for _, o := range opts { o(&s.opts) }
RECURSIVE ApplyOptions(_, _)
ApplyOptions(args, os) ==
  IF args = <<>> THEN os ELSE ApplyOptions(Tail(args), ApplyOption(Head(args), os))

OptionSeqs == UNION { [1..n -> OptionSet] : n \in 0..MaxOpts }

Goto(p, loc) == pc' = [pc EXCEPT ![p] = loc]

\* A client wrapper returns a client whose calls pass through the wrapper's
\* layer first and then through the client it was given: a client is the
\* sequence of its layers, outermost first.
Wrap(layer, c) == <<layer>> \o c

\* A newService that wraps the client with the auth layer first.
NewClientAuthInnermost ==
  LET c1 == Wrap("AuthClient", <<"client">>)
      c2 == Wrap("FromService", c1)
      c3 == Wrap("TraceCall", c2)
  IN c3

\* newService: options.Client is wrapped three times, each time replacing it.
NewClient ==
  LET c1 == Wrap("FromService", <<"client">>)
      c2 == Wrap("TraceCall", c1)
      c3 == Wrap("AuthClient", c2)
  IN c3

\* newService: the handler wrappers given to options.Server.Init, in order.
NewHandlerWrappers == <<"HandlerStats", "TraceHandler", "AuthHandler">>

\* strings.Contains(s, substr): substr starts at some position of s.
HasPrefix(s, prefix) ==
  Len(s) >= Len(prefix) /\ SubSeq(s, 1, Len(prefix)) = prefix
RECURSIVE Contains(_, _)
Contains(s, substr) ==
  IF Len(s) < Len(substr) THEN FALSE
  ELSE HasPrefix(s, substr) \/ Contains(Tail(s), substr)

\* A mutant of ServiceType: "web" is looked for before "api".
ServiceTypeWebFirst(n) ==
  IF Contains(n, <<"w", "e", "b">>) THEN "web"
  ELSE IF Contains(n, <<"a", "p", "i">>) THEN "api"
  ELSE "service"

\* registerAuthAccount: serviceType, the role of the account.
ServiceType(n) ==
  IF Contains(n, <<"a", "p", "i">>) THEN "api"
  ELSE IF Contains(n, <<"w", "e", "b">>) THEN "web"
  ELSE "service"

\* A logger.Fatal that logs and returns.
FatalLogsOnly == UNCHANGED exited

\* logger.Fatal: the process exits.
Fatal == exited' = TRUE

\* ------------------------------------------------------------------- Init

\* An Init that applies its options inside the one-time gate: a call made
\* after the sequence has run leaves the options alone.
InitCallOptionsOnce(p) ==
  /\ ~exited
  /\ pc[p] = "idle"
  /\ calls[p] < MaxCalls
  /\ \E as \in OptionSeqs :
       /\ initOpts' = IF p = Main THEN as ELSE initOpts
       /\ opts' = IF once.done THEN opts ELSE ApplyOptions(as, opts)
  /\ calls' = [calls EXCEPT ![p] = @ + 1]
  /\ doneAtCall' = [doneAtCall EXCEPT ![p] = once.done]
  /\ Goto(p, "once")
  /\ top' = IF p = Main THEN "Init" ELSE top
  /\ UNCHANGED <<ctxDone, exited, name, once, cmdName, plugins, plugIdx, fx>>
  /\ UNCHANGED <<idx, gerr, ret, stopRet, log, ch, notified, sigHandled,
                 profiling, srvRunning, debugHandler, auth>>

\* Init(opts...): the options are applied, then s.once.Do is entered.
InitCall(p) ==
  /\ ~exited
  /\ pc[p] = "idle"
  /\ calls[p] < MaxCalls
  /\ \E as \in OptionSeqs :
       /\ initOpts' = IF p = Main THEN as ELSE initOpts
       /\ opts' = ApplyOptions(as, opts)
  /\ calls' = [calls EXCEPT ![p] = @ + 1]
  /\ doneAtCall' = [doneAtCall EXCEPT ![p] = once.done]
  /\ Goto(p, "once")
  /\ top' = IF p = Main THEN "Init" ELSE top
  /\ UNCHANGED <<ctxDone, exited, name, once, cmdName, plugins, plugIdx, fx>>
  /\ UNCHANGED <<idx, gerr, ret, stopRet, log, ch, notified, sigHandled,
                 profiling, srvRunning, debugHandler, auth>>

\* An Init that binds the store table and wires the collaborators after
\* s.once.Do has returned, on the calls that find the sequence done.
OnceDoThenWires(p) ==
  /\ ~exited
  /\ pc[p] = "once"
  /\ IF once.done
     THEN /\ Goto(p, "ret")
          /\ fx' = [fx EXCEPT !.table = Append(@, cmdName),
                              !.wire = [c \in Collaborators |-> @[c] + 1]]
     ELSE /\ Goto(p, "once_lock")
          /\ UNCHANGED fx
  /\ ret' = IF p = Main /\ once.done THEN Nil ELSE ret
  /\ initOpts' = IF p = Main THEN <<>> ELSE initOpts
  /\ UNCHANGED <<opts, ctxDone, exited, calls, name, once, doneAtCall, cmdName,
                 plugins, plugIdx>>
  /\ UNCHANGED <<top, idx, gerr, stopRet, log, ch, notified, sigHandled,
                 profiling, srvRunning, debugHandler, auth>>

\* sync.Once.Do, fast path: done is read without the mutex.
OnceDo(p) ==
  /\ ~exited
  /\ pc[p] = "once"
  /\ IF once.done THEN Goto(p, "ret") ELSE Goto(p, "once_lock")
  /\ ret' = IF p = Main /\ once.done THEN Nil ELSE ret
  /\ initOpts' = IF p = Main THEN <<>> ELSE initOpts
  /\ UNCHANGED <<opts, ctxDone, exited, calls, name, once, doneAtCall, cmdName,
                 plugins, plugIdx, fx>>
  /\ UNCHANGED <<top, idx, gerr, stopRet, log, ch, notified, sigHandled,
                 profiling, srvRunning, debugHandler, auth>>

\* A mutant of OnceDoSlow: done is not read again under the mutex.
OnceDoSlowNoRecheck(p) ==
  /\ ~exited
  /\ pc[p] = "once_lock"
  /\ once.m = {}
  /\ once' = [once EXCEPT !.m = {p}]
  /\ Goto(p, "plugins")
  /\ \E env \in PluginEnvs : plugins' = Split(env, <<>>)
  /\ plugIdx' = 1
  /\ fx' = [fx EXCEPT !.runs = @ + 1]
  /\ UNCHANGED <<opts, ctxDone, exited, calls, name, doneAtCall, initOpts, cmdName, lifeVars>>

\* A mutant of OnceDoSlow: done is set when the function starts, not when it ends.
OnceDoSlowEarlyDone(p) ==
  /\ ~exited
  /\ pc[p] = "once_lock"
  /\ once.m = {}
  /\ IF once.done
     THEN /\ once' = [once EXCEPT !.m = {p}]
          /\ Goto(p, "once_unlock")
          /\ UNCHANGED <<plugins, plugIdx, fx>>
     ELSE /\ once' = [done |-> TRUE, m |-> {p}]
          /\ Goto(p, "plugins")
          /\ \E env \in PluginEnvs : plugins' = Split(env, <<>>)
          /\ plugIdx' = 1
          /\ fx' = [fx EXCEPT !.runs = @ + 1]
  /\ UNCHANGED <<opts, ctxDone, exited, calls, name, doneAtCall, initOpts, cmdName, lifeVars>>

\* sync.Once.doSlow: the mutex is taken and done is read again; the function runs
\* if it is still unset. The function starts by reading MICRO_PLUGIN.
OnceDoSlow(p) ==
  /\ ~exited
  /\ pc[p] = "once_lock"
  /\ once.m = {}
  /\ once' = [once EXCEPT !.m = {p}]
  /\ IF once.done
     THEN /\ Goto(p, "once_unlock")
          /\ UNCHANGED <<plugins, plugIdx, fx>>
     ELSE /\ Goto(p, "plugins")
          /\ \E env \in PluginEnvs : plugins' = Split(env, <<>>)
          /\ plugIdx' = 1
          /\ fx' = [fx EXCEPT !.runs = @ + 1]
  /\ UNCHANGED <<opts, ctxDone, exited, calls, name, doneAtCall, initOpts, cmdName, lifeVars>>

\* One round of the plugin loop: an empty entry is skipped; plugin.Load and
\* plugin.Init each either succeed or end the process.
InitPlugin(p) ==
  /\ ~exited
  /\ pc[p] = "plugins"
  /\ IF plugIdx > Len(plugins)
     THEN /\ Goto(p, "cmd")
          /\ UNCHANGED <<plugIdx, fx, exited>>
     ELSE IF Len(plugins[plugIdx]) = 0
     THEN /\ plugIdx' = plugIdx + 1
          /\ UNCHANGED <<pc, fx, exited>>
     ELSE \/ /\ Fatal
             /\ fx' = [fx EXCEPT !.fatal = "plugin.Load"]
             /\ UNCHANGED <<pc, plugIdx>>
          \/ /\ Fatal
             /\ fx' = [fx EXCEPT !.loads = Append(@, plugins[plugIdx]),
                                 !.fatal = "plugin.Init"]
             /\ UNCHANGED <<pc, plugIdx>>
          \/ /\ fx' = [fx EXCEPT !.loads = Append(@, plugins[plugIdx]),
                                 !.inits = Append(@, plugins[plugIdx])]
             /\ plugIdx' = plugIdx + 1
             /\ UNCHANGED <<pc, exited>>
  /\ UNCHANGED <<opts, ctxDone, calls, name, once, doneAtCall, initOpts, cmdName, plugins, lifeVars>>

\* The command's name defaults to the server's name; Cmd.Init parses the flags,
\* and its failure ends the process.
InitCmd(p) ==
  /\ ~exited
  /\ pc[p] = "cmd"
  /\ cmdName' = IF Len(cmdName) = 0 THEN name ELSE cmdName
  /\ \/ /\ Fatal
        /\ fx' = [fx EXCEPT !.cmdInit = @ + 1, !.fatal = "Cmd.Init"]
        /\ UNCHANGED pc
     \/ /\ fx' = [fx EXCEPT !.cmdInit = @ + 1]
        /\ Goto(p, "wire")
        /\ UNCHANGED exited
  /\ UNCHANGED <<opts, ctxDone, calls, name, once, doneAtCall, initOpts, plugins, plugIdx, lifeVars>>

\* Store.Init(store.Table(name)), then Auth, Registry, Runtime and Store are each
\* given the client.
InitWire(p) ==
  /\ ~exited
  /\ pc[p] = "wire"
  /\ fx' = [fx EXCEPT !.table = Append(@, cmdName),
                      !.wire = [c \in Collaborators |-> @[c] + 1]]
  /\ Goto(p, "once_done")
  /\ UNCHANGED <<opts, ctxDone, exited, calls, name, once, doneAtCall, initOpts, cmdName,
                 plugins, plugIdx, lifeVars>>

\* doSlow's deferred o.done.Store(1).
OnceDone(p) ==
  /\ ~exited
  /\ pc[p] = "once_done"
  /\ once' = [once EXCEPT !.done = TRUE]
  /\ Goto(p, "once_unlock")
  /\ UNCHANGED <<opts, ctxDone, exited, calls, name, doneAtCall, initOpts, cmdName,
                 plugins, plugIdx, fx, lifeVars>>

\* doSlow's deferred o.m.Unlock(); Do and Init return.
OnceUnlock(p) ==
  /\ ~exited
  /\ pc[p] = "once_unlock"
  /\ once' = [once EXCEPT !.m = {}]
  /\ Goto(p, "ret")
  /\ ret' = IF p = Main THEN Nil ELSE ret
  /\ UNCHANGED <<opts, ctxDone, exited, calls, name, doneAtCall, initOpts, cmdName,
                 plugins, plugIdx, fx>>
  /\ UNCHANGED <<top, idx, gerr, stopRet, log, ch, notified, sigHandled,
                 profiling, srvRunning, debugHandler, auth>>

\* The caller has its call's result and is free to call again.
Return(p) ==
  /\ ~exited
  /\ pc[p] = "ret"
  /\ Goto(p, "idle")
  /\ IF p = Main
     THEN top' = "none" /\ log' = <<>> /\ ret' = Nil /\ stopRet' = Nil
     ELSE UNCHANGED <<top, log, ret, stopRet>>
  /\ UNCHANGED <<opts, ctxDone, exited, calls, name, initVars>>
  /\ UNCHANGED <<idx, gerr, ch, notified, sigHandled,
                 profiling, srvRunning, debugHandler, auth>>

\* ------------------------------------------------------------ Start, Stop

\* What the calls below leave alone.
restVars == <<opts, ctxDone, calls, name, initVars>>
runVars == <<stopRet, ch, notified, sigHandled, profiling, debugHandler, auth>>

\* A step of Main's running call, as the log keeps it.
Step(kind, who, e) == <<kind, who, e = Nil>>

\* What a hook or a collaborator's call returns: nil, or its own error.
Outcomes(kind, who) == {Nil, Err(kind, who)}

\* A mutant of FailFast: the error is not looked at and the call goes on.
FailFastNever(e) == FALSE

\* Start's `if err != nil { return err }`.
FailFast(e) == e # Nil

\* A mutant of KeepLast: the first error is kept, later ones are dropped.
KeepFirst(g, e) == IF e # Nil /\ g = Nil THEN e ELSE g

\* Stop's `if err != nil { gerr = err }`.
KeepLast(g, e) == IF e # Nil THEN e ELSE g

\* Main calls Start.
StartCall ==
  /\ ~exited
  /\ pc[Main] = "idle"
  /\ calls[Main] < MaxCalls
  /\ calls' = [calls EXCEPT ![Main] = @ + 1]
  /\ top' = "Start"
  /\ log' = <<Step("Start", "call", Nil)>>
  /\ idx' = 1
  /\ Goto(Main, "start_before")
  /\ UNCHANGED <<opts, ctxDone, exited, name, initVars, gerr, ret, srvRunning, runVars>>

\* A mutant of StartBefore: the loop ends one hook early.
StartBeforeSkipsLast ==
  /\ ~exited
  /\ pc[Main] = "start_before"
  /\ IF idx >= Len(opts.BeforeStart)
     THEN /\ Goto(Main, "start_server")
          /\ UNCHANGED <<idx, log, ret>>
     ELSE \E e \in Outcomes("BeforeStart", opts.BeforeStart[idx]) :
            /\ log' = Append(log, Step("BeforeStart", opts.BeforeStart[idx], e))
            /\ IF FailFast(e)
               THEN ret' = e /\ Goto(Main, "start_ret") /\ UNCHANGED idx
               ELSE idx' = idx + 1 /\ UNCHANGED <<pc, ret>>
  /\ UNCHANGED <<restVars, exited, top, gerr, srvRunning, runVars>>

\* One round of the BeforeStart loop.
StartBefore ==
  /\ ~exited
  /\ pc[Main] = "start_before"
  /\ IF idx > Len(opts.BeforeStart)
     THEN /\ Goto(Main, "start_server")
          /\ UNCHANGED <<idx, log, ret>>
     ELSE \E e \in Outcomes("BeforeStart", opts.BeforeStart[idx]) :
            /\ log' = Append(log, Step("BeforeStart", opts.BeforeStart[idx], e))
            /\ IF FailFast(e)
               THEN ret' = e /\ Goto(Main, "start_ret") /\ UNCHANGED idx
               ELSE idx' = idx + 1 /\ UNCHANGED <<pc, ret>>
  /\ UNCHANGED <<restVars, exited, top, gerr, srvRunning, runVars>>

\* s.opts.Server.Start()
StartServer ==
  /\ ~exited
  /\ pc[Main] = "start_server"
  /\ \E e \in Outcomes("Server.Start", "") :
       /\ log' = Append(log, Step("Server.Start", "", e))
       /\ srvRunning' = IF e = Nil THEN TRUE ELSE srvRunning
       /\ IF FailFast(e)
          THEN ret' = e /\ Goto(Main, "start_ret") /\ UNCHANGED idx
          ELSE idx' = 1 /\ Goto(Main, "start_after") /\ UNCHANGED ret
  /\ UNCHANGED <<restVars, exited, top, gerr, runVars>>

\* A Start that stops the server again when an AfterStart hook fails.
StartAfterStopsServer ==
  /\ ~exited
  /\ pc[Main] = "start_after"
  /\ IF idx > Len(opts.AfterStart)
     THEN /\ ret' = Nil
          /\ Goto(Main, "start_ret")
          /\ UNCHANGED <<idx, log, srvRunning>>
     ELSE \E e \in Outcomes("AfterStart", opts.AfterStart[idx]) :
            IF FailFast(e)
            THEN /\ log' = log \o <<Step("AfterStart", opts.AfterStart[idx], e),
                                    Step("Server.Stop", "", Nil)>>
                 /\ srvRunning' = FALSE
                 /\ ret' = e
                 /\ Goto(Main, "start_ret")
                 /\ UNCHANGED idx
            ELSE /\ log' = Append(log, Step("AfterStart", opts.AfterStart[idx], e))
                 /\ idx' = idx + 1
                 /\ UNCHANGED <<pc, ret, srvRunning>>
  /\ UNCHANGED <<restVars, exited, top, gerr, runVars>>

\* One round of the AfterStart loop; after the last, Start returns nil.
StartAfter ==
  /\ ~exited
  /\ pc[Main] = "start_after"
  /\ IF idx > Len(opts.AfterStart)
     THEN /\ ret' = Nil
          /\ Goto(Main, "start_ret")
          /\ UNCHANGED <<idx, log>>
     ELSE \E e \in Outcomes("AfterStart", opts.AfterStart[idx]) :
            /\ log' = Append(log, Step("AfterStart", opts.AfterStart[idx], e))
            /\ IF FailFast(e)
               THEN ret' = e /\ Goto(Main, "start_ret") /\ UNCHANGED idx
               ELSE idx' = idx + 1 /\ UNCHANGED <<pc, ret>>
  /\ UNCHANGED <<restVars, exited, top, gerr, srvRunning, runVars>>

\* A Run that goes on to wait for a trigger whatever Start returned.
StartReturnIgnoresError ==
  /\ ~exited
  /\ pc[Main] = "start_ret"
  /\ IF top = "Run"
     THEN Goto(Main, "run_notify")
     ELSE Goto(Main, "ret")
  /\ UNCHANGED <<restVars, exited, top, idx, gerr, ret, log, srvRunning, runVars>>

\* Start has returned: to its caller, or into Run, which returns Start's error
\* and otherwise goes on to the signal channel.
StartReturn ==
  /\ ~exited
  /\ pc[Main] = "start_ret"
  /\ IF top = "Run"
     THEN IF ret # Nil THEN Goto(Main, "run_ret") ELSE Goto(Main, "run_notify")
     ELSE Goto(Main, "ret")
  /\ UNCHANGED <<restVars, exited, top, idx, gerr, ret, log, srvRunning, runVars>>

\* Main calls Stop.
StopCall ==
  /\ ~exited
  /\ pc[Main] = "idle"
  /\ calls[Main] < MaxCalls
  /\ calls' = [calls EXCEPT ![Main] = @ + 1]
  /\ top' = "Stop"
  /\ log' = <<Step("Stop", "call", Nil)>>
  /\ idx' = 1
  /\ gerr' = Nil
  /\ Goto(Main, "stop_before")
  /\ UNCHANGED <<opts, ctxDone, exited, name, initVars, ret, srvRunning, runVars>>

\* A mutant of StopBefore: a failing hook ends Stop, as in Start.
StopBeforeAborts ==
  /\ ~exited
  /\ pc[Main] = "stop_before"
  /\ IF idx > Len(opts.BeforeStop)
     THEN /\ Goto(Main, "stop_server")
          /\ UNCHANGED <<idx, log, gerr, ret>>
     ELSE \E e \in Outcomes("BeforeStop", opts.BeforeStop[idx]) :
            /\ log' = Append(log, Step("BeforeStop", opts.BeforeStop[idx], e))
            /\ gerr' = KeepLast(gerr, e)
            /\ IF e # Nil
               THEN ret' = e /\ Goto(Main, "stop_ret") /\ UNCHANGED idx
               ELSE idx' = idx + 1 /\ UNCHANGED <<pc, ret>>
  /\ UNCHANGED <<restVars, exited, top, srvRunning, runVars>>

\* One round of the BeforeStop loop.
StopBefore ==
  /\ ~exited
  /\ pc[Main] = "stop_before"
  /\ IF idx > Len(opts.BeforeStop)
     THEN /\ Goto(Main, "stop_server")
          /\ UNCHANGED <<idx, log, gerr>>
     ELSE \E e \in Outcomes("BeforeStop", opts.BeforeStop[idx]) :
            /\ log' = Append(log, Step("BeforeStop", opts.BeforeStop[idx], e))
            /\ gerr' = KeepLast(gerr, e)
            /\ idx' = idx + 1
            /\ UNCHANGED pc
  /\ UNCHANGED <<restVars, exited, top, ret, srvRunning, runVars>>

\* A mutant of StopServer: its error is recorded in gerr like a hook's, and
\* Stop goes on to the AfterStop hooks.
StopServerRecords ==
  /\ ~exited
  /\ pc[Main] = "stop_server"
  /\ \E e \in Outcomes("Server.Stop", "") :
       /\ log' = Append(log, Step("Server.Stop", "", e))
       /\ srvRunning' = IF e = Nil THEN FALSE ELSE srvRunning
       /\ gerr' = KeepLast(gerr, e)
       /\ idx' = 1
       /\ Goto(Main, "stop_after")
  /\ UNCHANGED <<restVars, exited, top, ret, runVars>>

\* s.opts.Server.Stop(): its error is returned at once.
StopServer ==
  /\ ~exited
  /\ pc[Main] = "stop_server"
  /\ \E e \in Outcomes("Server.Stop", "") :
       /\ log' = Append(log, Step("Server.Stop", "", e))
       /\ srvRunning' = IF e = Nil THEN FALSE ELSE srvRunning
       /\ IF FailFast(e)
          THEN ret' = e /\ Goto(Main, "stop_ret") /\ UNCHANGED idx
          ELSE idx' = 1 /\ Goto(Main, "stop_after") /\ UNCHANGED ret
  /\ UNCHANGED <<restVars, exited, top, gerr, runVars>>

\* One round of the AfterStop loop; after the last, Stop returns gerr.
StopAfter ==
  /\ ~exited
  /\ pc[Main] = "stop_after"
  /\ IF idx > Len(opts.AfterStop)
     THEN /\ ret' = gerr
          /\ Goto(Main, "stop_ret")
          /\ UNCHANGED <<idx, log, gerr>>
     ELSE \E e \in Outcomes("AfterStop", opts.AfterStop[idx]) :
            /\ log' = Append(log, Step("AfterStop", opts.AfterStop[idx], e))
            /\ gerr' = KeepLast(gerr, e)
            /\ idx' = idx + 1
            /\ UNCHANGED <<pc, ret>>
  /\ UNCHANGED <<restVars, exited, top, srvRunning, runVars>>

\* A mutant of StopReturn: Run calls Stop and returns nil.
StopReturnDropsError ==
  /\ ~exited
  /\ pc[Main] = "stop_ret"
  /\ IF top = "Run"
     THEN stopRet' = ret /\ ret' = Nil /\ Goto(Main, "run_ret")
     ELSE Goto(Main, "ret") /\ UNCHANGED <<stopRet, ret>>
  /\ UNCHANGED <<restVars, exited, top, idx, gerr, log, srvRunning,
                 ch, notified, sigHandled, profiling, debugHandler, auth>>

\* Stop has returned: to its caller, or into Run, which returns what Stop returned.
StopReturn ==
  /\ ~exited
  /\ pc[Main] = "stop_ret"
  /\ IF top = "Run"
     THEN stopRet' = ret /\ Goto(Main, "run_ret")
     ELSE Goto(Main, "ret") /\ UNCHANGED stopRet
  /\ UNCHANGED <<restVars, exited, top, idx, gerr, ret, log, srvRunning,
                 ch, notified, sigHandled, profiling, debugHandler, auth>>

\* -------------------------------------------------------------------- Run

\* A mutant of RunCall: Start is called before the auth account is registered.
RunCallStartsFirst ==
  /\ ~exited
  /\ pc[Main] = "idle"
  /\ calls[Main] < MaxCalls
  /\ calls' = [calls EXCEPT ![Main] = @ + 1]
  /\ top' = "Run"
  /\ debugHandler' = debugHandler + 1
  /\ log' = <<Step("Run", "call", Nil), Step("Start", "call", Nil)>>
  /\ idx' = 1
  /\ Goto(Main, "start_before")
  /\ UNCHANGED <<opts, ctxDone, exited, name, initVars, gerr, ret, srvRunning,
                 stopRet, ch, notified, sigHandled, profiling, auth>>

\* Main calls Run: the debug handler is registered; the profiler, if there is
\* one, is started and its Stop deferred, or Run returns its error.
RunCall ==
  /\ ~exited
  /\ pc[Main] = "idle"
  /\ calls[Main] < MaxCalls
  /\ calls' = [calls EXCEPT ![Main] = @ + 1]
  /\ top' = "Run"
  /\ debugHandler' = debugHandler + 1
  /\ IF opts.Profile
     THEN \E e \in Outcomes("Profile.Start", "") :
            /\ log' = <<Step("Run", "call", Nil), Step("Profile.Start", "", e)>>
            /\ IF e # Nil
               THEN ret' = e /\ Goto(Main, "ret") /\ UNCHANGED profiling
               ELSE profiling' = TRUE /\ Goto(Main, "auth_generate") /\ UNCHANGED ret
     ELSE /\ log' = <<Step("Run", "call", Nil)>>
          /\ Goto(Main, "auth_generate")
          /\ UNCHANGED <<ret, profiling>>
  /\ UNCHANGED <<opts, ctxDone, exited, name, initVars, idx, gerr, srvRunning,
                 stopRet, ch, notified, sigHandled, auth>>

\* registerAuthAccount: Auth.Generate(name, roles, namespace).
AuthGenerate ==
  /\ ~exited
  /\ pc[Main] = "auth_generate"
  /\ \E e \in Outcomes("Generate", "") :
       /\ log' = Append(log, Step("Generate", "", e))
       /\ IF e # Nil
          THEN /\ auth' = [auth EXCEPT !.role = ServiceType(name)]
               /\ ret' = e
               /\ Goto(Main, "run_ret")
          ELSE /\ auth' = [auth EXCEPT !.role = ServiceType(name), !.generated = @ + 1]
               /\ Goto(Main, "auth_token")
               /\ UNCHANGED ret
  /\ UNCHANGED <<restVars, exited, top, idx, gerr, srvRunning,
                 stopRet, ch, notified, sigHandled, profiling, debugHandler>>

\* A mutant of AuthToken: the error of Auth.Token is not returned.
AuthTokenIgnoresError ==
  /\ ~exited
  /\ pc[Main] = "auth_token"
  /\ \E e \in Outcomes("Token", "") :
       /\ log' = Append(log, Step("Token", "", e))
       /\ auth' = IF e = Nil THEN [auth EXCEPT !.tokens = @ + 1] ELSE auth
       /\ Goto(Main, "auth_init")
       /\ UNCHANGED ret
  /\ UNCHANGED <<restVars, exited, top, idx, gerr, srvRunning,
                 stopRet, ch, notified, sigHandled, profiling, debugHandler>>

\* A registerAuthAccount that starts over with a new account when the token
\* request fails.
AuthTokenRegenerates ==
  /\ ~exited
  /\ pc[Main] = "auth_token"
  /\ \E e \in Outcomes("Token", "") :
       /\ log' = Append(log, Step("Token", "", e))
       /\ IF e # Nil
          THEN Goto(Main, "auth_generate") /\ UNCHANGED auth
          ELSE /\ auth' = [auth EXCEPT !.tokens = @ + 1]
               /\ Goto(Main, "auth_init")
       /\ UNCHANGED ret
  /\ UNCHANGED <<restVars, exited, top, idx, gerr, srvRunning,
                 stopRet, ch, notified, sigHandled, profiling, debugHandler>>

\* registerAuthAccount: Auth.Token(credentials of the account).
AuthToken ==
  /\ ~exited
  /\ pc[Main] = "auth_token"
  /\ \E e \in Outcomes("Token", "") :
       /\ log' = Append(log, Step("Token", "", e))
       /\ IF e # Nil
          THEN ret' = e /\ Goto(Main, "run_ret") /\ UNCHANGED auth
          ELSE /\ auth' = [auth EXCEPT !.tokens = @ + 1]
               /\ Goto(Main, "auth_init")
               /\ UNCHANGED ret
  /\ UNCHANGED <<restVars, exited, top, idx, gerr, srvRunning,
                 stopRet, ch, notified, sigHandled, profiling, debugHandler>>

\* registerAuthAccount: Auth.Init(auth.ClientToken(token)) and return nil; Run
\* then calls Start.
AuthInit ==
  /\ ~exited
  /\ pc[Main] = "auth_init"
  /\ log' = log \o <<Step("Auth.Init", "", Nil), Step("Start", "call", Nil)>>
  /\ auth' = [auth EXCEPT !.installed = @ + 1]
  /\ idx' = 1
  /\ Goto(Main, "start_before")
  /\ UNCHANGED <<restVars, exited, top, gerr, ret, srvRunning,
                 stopRet, ch, notified, sigHandled, profiling, debugHandler>>

\* A Run that registers the channel whether or not s.opts.Signal is set.
RunNotifyAlways ==
  /\ ~exited
  /\ pc[Main] = "run_notify"
  /\ ch' = 0
  /\ notified' = TRUE
  /\ sigHandled' = TRUE
  /\ Goto(Main, "run_select")
  /\ UNCHANGED <<restVars, exited, top, idx, gerr, ret, log, srvRunning,
                 stopRet, profiling, debugHandler, auth>>

\* ch := make(chan os.Signal, 1); signal.Notify(ch, ...) if s.opts.Signal.
RunNotify ==
  /\ ~exited
  /\ pc[Main] = "run_notify"
  /\ ch' = 0
  /\ notified' = opts.Signal
  /\ sigHandled' = (sigHandled \/ opts.Signal)
  /\ Goto(Main, "run_select")
  /\ UNCHANGED <<restVars, exited, top, idx, gerr, ret, log, srvRunning,
                 stopRet, profiling, debugHandler, auth>>

\* A Run whose select has only the signal case.
RunSelectSignalOnly ==
  /\ ~exited
  /\ pc[Main] = "run_select"
  /\ ch > 0
  /\ ch' = ch - 1
  /\ log' = log \o <<Step("Wait", "signal", Nil), Step("Stop", "call", Nil)>>
  /\ idx' = 1
  /\ gerr' = Nil
  /\ Goto(Main, "stop_before")
  /\ UNCHANGED <<restVars, exited, top, ret, srvRunning,
                 stopRet, notified, sigHandled, profiling, debugHandler, auth>>

\* The select: a case that is ready is taken, either one if both are; Run then
\* calls Stop.
RunSelect ==
  /\ ~exited
  /\ pc[Main] = "run_select"
  /\ \/ /\ ch > 0
        /\ ch' = ch - 1
        /\ log' = log \o <<Step("Wait", "signal", Nil), Step("Stop", "call", Nil)>>
     \/ /\ ctxDone
        /\ UNCHANGED ch
        /\ log' = log \o <<Step("Wait", "context", Nil), Step("Stop", "call", Nil)>>
  /\ idx' = 1
  /\ gerr' = Nil
  /\ Goto(Main, "stop_before")
  /\ UNCHANGED <<restVars, exited, top, ret, srvRunning,
                 stopRet, notified, sigHandled, profiling, debugHandler, auth>>

\* Run returns: the deferred Profile.Stop runs, and ch is out of reach.
RunReturn ==
  /\ ~exited
  /\ pc[Main] = "run_ret"
  /\ profiling' = FALSE
  /\ notified' = FALSE
  /\ ch' = 0
  /\ Goto(Main, "ret")
  /\ UNCHANGED <<restVars, exited, top, idx, gerr, ret, log, srvRunning,
                 stopRet, sigHandled, debugHandler, auth>>

\* ------------------------------------------------------------ environment

\* An OS termination signal: it is queued on the registered channel (and
\* dropped if the channel is full); with no channel registered the process exits.
OsSignal ==
  /\ ~exited
  /\ IF sigHandled
     THEN /\ ch' = IF notified THEN 1 ELSE ch
          /\ UNCHANGED exited
     ELSE /\ exited' = TRUE
          /\ UNCHANGED ch
  /\ UNCHANGED <<restVars, pc, top, idx, gerr, ret, log, srvRunning,
                 stopRet, notified, sigHandled, profiling, debugHandler, auth>>

\* The owner of s.opts.Context cancels it.
CtxCancel ==
  /\ ~exited
  /\ ~ctxDone
  /\ ctxDone' = TRUE
  /\ UNCHANGED <<opts, exited, pc, calls, name, initVars, lifeVars>>

\* ----------------------------------------------------------- specification

\* The service as newService leaves it, its server named by one of ns.
NewService(ns) ==
  /\ \E n \in 0..MaxHooks, sg \in BOOLEAN, pf \in BOOLEAN :
       opts = [Signal |-> sg, Profile |-> pf,
               Client |-> NewClient, HandlerWrappers |-> NewHandlerWrappers,
               BeforeStart |-> Hooks(n), AfterStart |-> Hooks(n),
               BeforeStop |-> Hooks(n), AfterStop |-> Hooks(n)]
  /\ ctxDone = FALSE
  /\ once = [done |-> FALSE, m |-> {}]
  /\ exited = FALSE
  /\ pc = [p \in Procs |-> "idle"]
  /\ calls = [p \in Procs |-> 0]
  /\ doneAtCall = [p \in Procs |-> FALSE]
  /\ initOpts = <<>>
  /\ name \in ns
  /\ cmdName = <<>>
  /\ plugins = <<>>
  /\ plugIdx = 1
  /\ fx = [runs |-> 0, loads |-> <<>>, inits |-> <<>>, cmdInit |-> 0,
           table |-> <<>>, wire |-> [c \in Collaborators |-> 0], fatal |-> ""]
  /\ top = "none"
  /\ idx = 1
  /\ gerr = Nil
  /\ ret = Nil
  /\ stopRet = Nil
  /\ log = <<>>
  /\ ch = 0
  /\ notified = FALSE
  /\ sigHandled = FALSE
  /\ profiling = FALSE
  /\ srvRunning = FALSE
  /\ debugHandler = 0
  /\ auth = [role |-> "", generated |-> 0, tokens |-> 0, installed |-> 0]

Init == NewService(Names)

\* The steps of Init, for thread p.
InitSteps(p) ==
  \/ InitCall(p)
  \/ OnceDo(p)
  \/ OnceDoSlow(p)
  \/ InitPlugin(p)
  \/ InitCmd(p)
  \/ InitWire(p)
  \/ OnceDone(p)
  \/ OnceUnlock(p)
  \/ Return(p)

\* The main thread calls Init, Start, Stop and Run in any order, one call at a
\* time, while signals arrive and the context is cancelled.
Next ==
  \/ InitSteps(Main)
  \/ StartCall \/ StartBefore \/ StartServer \/ StartAfter \/ StartReturn
  \/ StopCall \/ StopBefore \/ StopServer \/ StopAfter \/ StopReturn
  \/ RunCall \/ AuthGenerate \/ AuthToken \/ AuthInit
  \/ RunNotify \/ RunSelect \/ RunReturn
  \/ OsSignal \/ CtxCancel

Spec == Init /\ [][Next]_vars

\* From the select on, the thread in Run (or in Stop) is never blocked by the
\* service itself: a ready case is taken, every hook and Server.Stop return,
\* and the function returns.
RunSteps ==
  \/ RunSelect
  \/ StopBefore \/ StopServer \/ StopAfter \/ StopReturn
  \/ RunReturn

SpecLive == Init /\ [][Next]_vars /\ WF_vars(RunSteps)

\* Every thread but the main one calls Init, concurrently with the others and
\* repeatedly; the hooks and the profiler, which Init does not read, are left
\* out.
InitOnly ==
  /\ Init
  /\ ~opts.Profile
  /\ opts.BeforeStart = <<>> /\ opts.AfterStart = <<>>
  /\ opts.BeforeStop = <<>> /\ opts.AfterStop = <<>>

NextInit == \E p \in Procs \ {Main} : InitSteps(p)

SpecInit == InitOnly /\ [][NextInit]_vars

\* Run is called on services of every name, as far as the registration of the
\* auth account, which is all that reads the name.
InitRoles ==
  /\ NewService(RoleNames)
  /\ opts.Signal /\ ~opts.Profile
  /\ opts.BeforeStart = <<>> /\ opts.AfterStart = <<>>
  /\ opts.BeforeStop = <<>> /\ opts.AfterStop = <<>>

NextRoles ==
  \/ RunCall \/ AuthGenerate \/ AuthToken \/ AuthInit
  \/ RunReturn \/ Return(Main)

SpecRoles == InitRoles /\ [][NextRoles]_vars

\* ------------------------------------------------------------ properties

\* Where a thread is while it runs the function given to s.once.Do.
BodyLocs == {"plugins", "cmd", "wire", "once_done"}

\* The entries of the plugin list the loop does not skip.
NonEmpty(entry) == Len(entry) > 0

\* Thread p has returned from an Init call (under SpecInit every call is Init).
InitReturned(p) == pc[p] = "ret" \/ (pc[p] = "idle" /\ calls[p] > 0)

\* Every step of the one-time sequence has been executed exactly once.
SequenceComplete ==
  /\ fx.runs = 1
  /\ fx.loads = SelectSeq(plugins, NonEmpty)
  /\ fx.inits = SelectSeq(plugins, NonEmpty)
  /\ fx.cmdInit = 1
  /\ Len(fx.table) = 1
  /\ \A c \in Collaborators : fx.wire[c] = 1

\* C1: whatever Init calls have been made, by one thread or several, no step of
\* the one-time sequence has been executed twice, and once an Init call has
\* returned every plugin entry has been loaded and initialised once, the flags
\* parsed once, the store table bound once and each collaborator given the
\* client once.
C1_InitEffectsExactlyOnce ==
  /\ fx.runs <= 1
  /\ fx.cmdInit <= 1
  /\ Len(fx.table) <= 1
  /\ \A c \in Collaborators : fx.wire[c] <= 1
  /\ Len(fx.loads) <= Len(SelectSeq(plugins, NonEmpty))
  /\ (\E p \in Procs : InitReturned(p)) => SequenceComplete

\* Two threads have returned from Init, one of them twice, and two plugins were loaded.
C1_Witness ==
  /\ \E p, q \in Procs : p # q /\ InitReturned(p) /\ InitReturned(q) /\ calls[p] > 1
  /\ Len(fx.loads) = 2
  /\ SequenceComplete

\* C2: at most one thread is ever inside the one-time sequence and the sequence
\* is entered at most once; an Init call returns only when the sequence has
\* run to its end; and a call that began after once.done was set never waits for
\* the mutex.
C2_OnceSerializes ==
  /\ Cardinality({p \in Procs : pc[p] \in BodyLocs}) <= 1
  /\ fx.runs <= 1
  /\ \A p \in Procs : pc[p] = "ret" =>
       /\ SequenceComplete
       /\ \A q \in Procs : pc[q] \notin BodyLocs
  /\ \A p \in Procs : doneAtCall[p] => pc[p] \in {"idle", "once", "ret"}

\* One thread waits for the mutex while another is inside the sequence.
C2_Witness ==
  \E p, q \in Procs :
    /\ p # q
    /\ pc[p] = "once_lock"
    /\ pc[q] = "wire"

\* ----- the log of Main's running call

Kind(ev) == ev[1]
Who(ev) == ev[2]
Ok(ev) == ev[3]

\* The positions of the log that hold a step of the given kind.
At(kind) == {k \in 1..Len(log) : Kind(log[k]) = kind}

\* The steps logged since the running call last entered Start or Stop.
Since(marker) ==
  LET calls_ == {k \in 1..Len(log) : Kind(log[k]) = marker /\ Who(log[k]) = "call"}
      from == CHOOSE k \in calls_ : \A j \in calls_ : j <= k
  IN IF calls_ = {} THEN <<>> ELSE SubSeq(log, from + 1, Len(log))

\* The steps of Start in the order the code takes them, and those of Stop.
PhaseSteps(kind, hooks) == [k \in 1..Len(hooks) |-> <<kind, hooks[k]>>]
StartSteps == PhaseSteps("BeforeStart", opts.BeforeStart) \o <<<<"Server.Start", "">>>>
              \o PhaseSteps("AfterStart", opts.AfterStart)
StopSteps == PhaseSteps("BeforeStop", opts.BeforeStop) \o <<<<"Server.Stop", "">>>>
             \o PhaseSteps("AfterStop", opts.AfterStop)

\* The error of the last failed step of a log, nil if none failed.
LastFailure(l) ==
  LET failed == {k \in 1..Len(l) : ~Ok(l[k])}
      last == CHOOSE k \in failed : \A j \in failed : j <= k
  IN IF failed = {} THEN Nil ELSE Err(Kind(l[last]), Who(l[last]))

InStart == pc[Main] \in {"start_before", "start_server", "start_after", "start_ret"}
InStop == pc[Main] \in {"stop_before", "stop_server", "stop_after", "stop_ret"}

\* C3: while Start runs, the steps executed so far are the first steps of
\* BeforeStart hooks in registration order, Server.Start, AfterStart hooks in
\* registration order, and every step but the last one executed has succeeded;
\* when Start returns nil every step was executed and succeeded, and when it
\* returns an error that error is the one of the last step executed, which failed.
C3_StartFailsFast ==
  InStart =>
    LET sl == Since("Start")
        n == Len(sl)
    IN /\ n <= Len(StartSteps)
       /\ \A k \in 1..n : <<Kind(sl[k]), Who(sl[k])>> = StartSteps[k]
       /\ \A k \in 1..(n - 1) : Ok(sl[k])
       /\ pc[Main] # "start_ret" => (n > 0 => Ok(sl[n]))
       /\ pc[Main] = "start_ret" =>
            IF ret = Nil
            THEN n = Len(StartSteps) /\ Ok(sl[n])
            ELSE n > 0 /\ ~Ok(sl[n]) /\ ret = Err(Kind(sl[n]), Who(sl[n]))

\* Start has returned the error of BeforeStart hook B after hook A succeeded,
\* with AfterStart hooks registered.
C3_Witness ==
  /\ pc[Main] = "start_ret"
  /\ ret = Err("BeforeStart", "B")
  /\ Since("Start") = <<<<"BeforeStart", "A", TRUE>>, <<"BeforeStart", "B", FALSE>>>>
  /\ Len(opts.AfterStart) > 0

\* C4: when Stop returns, every BeforeStop hook has been executed, in
\* registration order, whatever the hooks before it returned, and then
\* Server.Stop; if Server.Stop succeeded every AfterStop hook has been executed
\* after it, in registration order, whatever any hook returned.
C4_StopRunsEveryHook ==
  pc[Main] = "stop_ret" =>
    LET sl == Since("Stop")
        nb == Len(opts.BeforeStop)
    IN /\ Len(sl) >= nb + 1
       /\ \A k \in 1..(nb + 1) : <<Kind(sl[k]), Who(sl[k])>> = StopSteps[k]
       /\ Ok(sl[nb + 1]) =>
            /\ Len(sl) = Len(StopSteps)
            /\ \A k \in 1..Len(sl) : <<Kind(sl[k]), Who(sl[k])>> = StopSteps[k]

\* Stop has returned after the first BeforeStop hook and the first AfterStop
\* hook failed, and the hooks after them were executed all the same.
C4_Witness ==
  /\ pc[Main] = "stop_ret"
  /\ Len(opts.BeforeStop) = 2
  /\ Len(Since("Stop")) = 5
  /\ ~Ok(Since("Stop")[1])
  /\ ~Ok(Since("Stop")[4])

\* C5: when Stop returns and Server.Stop succeeded, Stop's result is nil if
\* every hook succeeded and otherwise the error of the hook that failed last
\* in execution order (BeforeStop hooks, then AfterStop hooks).
C5_StopReturnsLastHookError ==
  (pc[Main] = "stop_ret" /\ \E k \in At("Server.Stop") : Ok(log[k])) =>
    ret = LastFailure(Since("Stop"))

\* BeforeStop hooks [A, B]: A failed, B succeeded, Server.Stop and every
\* AfterStop hook succeeded, and Stop has returned A's error.
C5_Witness ==
  /\ pc[Main] = "stop_ret"
  /\ opts.BeforeStop = <<"A", "B">>
  /\ Since("Stop") = <<<<"BeforeStop", "A", FALSE>>, <<"BeforeStop", "B", TRUE>>,
                       <<"Server.Stop", "", TRUE>>,
                       <<"AfterStop", "A", TRUE>>, <<"AfterStop", "B", TRUE>>>>
  /\ ret = Err("BeforeStop", "A")

\* C6: when Stop returns and Server.Stop failed, Stop's result is the error of
\* Server.Stop, whatever the BeforeStop hooks returned, and no AfterStop hook
\* has been executed.
C6_ServerStopErrorShortCircuits ==
  (pc[Main] = "stop_ret" /\ \E k \in At("Server.Stop") : ~Ok(log[k])) =>
    /\ ret = Err("Server.Stop", "")
    /\ At("AfterStop") = {}

\* Stop has returned after a BeforeStop hook failed and Server.Stop failed,
\* with AfterStop hooks registered.
C6_Witness ==
  /\ pc[Main] = "stop_ret"
  /\ \E k \in At("BeforeStop") : ~Ok(log[k])
  /\ \E k \in At("Server.Stop") : ~Ok(log[k])
  /\ Len(opts.AfterStop) > 0

\* The steps of the given kind in the log, in order.
OfKind(kind) ==
  LET Is(ev) == Kind(ev) = kind IN SelectSeq(log, Is)

\* The log's hooks of a phase are the first hooks registered for it, in order.
InRegistrationOrder(kind, hooks) ==
  LET evs == OfKind(kind)
  IN /\ Len(evs) <= Len(hooks)
     /\ \A k \in 1..Len(evs) : Who(evs[k]) = hooks[k]

\* C7: in every call, the hooks of a phase are executed in registration
\* order, each once (a hook is one step of the one thread, so no two overlap);
\* at the time Server.Start is invoked every BeforeStart hook has returned
\* success and no AfterStart hook has run, and an AfterStart hook runs only
\* after Server.Start; at the time Server.Stop is invoked every BeforeStop hook
\* has returned and no AfterStop hook has run, and an AfterStop hook runs only
\* after Server.Stop.
C7_StepsInOrder ==
  /\ InRegistrationOrder("BeforeStart", opts.BeforeStart)
  /\ InRegistrationOrder("AfterStart", opts.AfterStart)
  /\ InRegistrationOrder("BeforeStop", opts.BeforeStop)
  /\ InRegistrationOrder("AfterStop", opts.AfterStop)
  /\ \A k \in At("Server.Start") :
       /\ Cardinality({j \in At("BeforeStart") : j < k /\ Ok(log[j])})
            = Len(opts.BeforeStart)
       /\ \A j \in At("AfterStart") : k < j
  /\ At("AfterStart") # {} => At("Server.Start") # {}
  /\ \A k \in At("Server.Stop") :
       /\ Cardinality({j \in At("BeforeStop") : j < k}) = Len(opts.BeforeStop)
       /\ \A j \in At("AfterStop") : k < j
  /\ At("AfterStop") # {} => At("Server.Stop") # {}

\* A Run has executed two hooks in each of the four phases.
C7_Witness ==
  /\ top = "Run"
  /\ \A kind \in {"BeforeStart", "AfterStart", "BeforeStop", "AfterStop"} :
       Cardinality(At(kind)) = 2

\* The calls of Start and of Stop the running call has made.
StartCalls == {k \in At("Start") : Who(log[k]) = "call"}
StopCalls == {k \in At("Stop") : Who(log[k]) = "call"}

\* C8: in Run, whenever Start is entered, a BeforeStart hook runs or
\* Server.Start is invoked, the account has been generated, the token requested
\* and the token installed before it, in that order.
C8_AuthBeforeStart ==
  top = "Run" =>
    \A k \in StartCalls \cup At("BeforeStart") \cup At("Server.Start") :
      \E a \in At("Generate"), b \in At("Token"), c \in At("Auth.Init") :
        /\ a < b /\ b < c /\ c < k
        /\ Ok(log[a]) /\ Ok(log[b]) /\ Ok(log[c])

\* A Run has executed a BeforeStart hook and invoked Server.Start.
C8_Witness ==
  /\ top = "Run"
  /\ At("BeforeStart") # {}
  /\ At("Server.Start") # {}

\* C9: once Auth.Generate or Auth.Token has failed in Run, that failure is the
\* last step of the Run: Run returns its error, no token is installed, no
\* token is requested after a failed generation, and Start, its hooks,
\* Server.Start, the wait and Stop are not executed.
C9_AuthFailureAbortsRun ==
  top = "Run" =>
    \A k \in At("Generate") \cup At("Token") :
      ~Ok(log[k]) =>
        /\ k = Len(log)
        /\ pc[Main] \in {"run_ret", "ret"}
        /\ ret = Err(Kind(log[k]), "")
        /\ At("Auth.Init") = {}
        /\ Kind(log[k]) = "Generate" => At("Token") = {}
        /\ StartCalls = {} /\ At("BeforeStart") = {} /\ At("Server.Start") = {}
        /\ At("Wait") = {} /\ StopCalls = {}

\* Run has returned the error of Auth.Token, with BeforeStart hooks registered.
C9_Witness ==
  /\ top = "Run"
  /\ pc[Main] = "ret"
  /\ ret = Err("Token", "")
  /\ Len(opts.BeforeStart) > 0

\* Start, called by the running Run, has succeeded.
StartSucceeded ==
  /\ \E k \in At("Server.Start") : Ok(log[k])
  /\ Len(OfKind("AfterStart")) = Len(opts.AfterStart)
  /\ \A k \in At("AfterStart") : Ok(log[k])

\* What the Stop in the log returns: the error of Server.Stop if it failed,
\* otherwise the error of the hook that failed last.
StopResult ==
  IF \E k \in At("Server.Stop") : ~Ok(log[k])
  THEN Err("Server.Stop", "")
  ELSE LastFailure(Since("Stop"))

\* C10: a Run is unblocked at most once and calls Stop at most once, at the
\* moment it is unblocked, whatever signals arrive and whether or not the
\* context is cancelled, before or after; and when a Run whose Start succeeded
\* returns, it has called Stop exactly once and returns what that Stop returned.
C10_RunStopsOnce ==
  top = "Run" =>
    /\ Cardinality(StopCalls) <= 1
    /\ Cardinality(At("Wait")) <= 1
    /\ \A k \in StopCalls : k - 1 \in At("Wait")
    /\ (pc[Main] \in {"run_ret", "ret"} /\ StartSucceeded) =>
         /\ Cardinality(StopCalls) = 1
         /\ ret = stopRet
         /\ ret = StopResult

\* Run is returning the error its one Stop returned; the context is cancelled
\* and a signal has arrived as well and is still in the channel.
C10_Witness ==
  /\ top = "Run"
  /\ pc[Main] = "run_ret"
  /\ StartSucceeded
  /\ ctxDone /\ ch = 1
  /\ ret # Nil

\* ------------------------------------------------------------------ C11

\* Run is past its select when the thread that was waiting in it has moved on.
Unblocked == pc[Main] = "run_select" /\ pc'[Main] # "run_select"

\* C11: Run leaves its select, and calls Stop, only when a trigger has fired.
\* With the Signal option disabled no signal is ever queued for Run, so only
\* the cancelled context unblocks it; with the option enabled a queued signal
\* unblocks Run by itself, and a cancelled context unblocks Run in either case
\* (a process that does not listen for signals may be killed by one first).
C11_UnblockedByTrigger ==
  /\ [][Unblocked => (ctxDone \/ (opts.Signal /\ notified /\ ch > 0))]_vars
  /\ [][Unblocked /\ ~opts.Signal => ctxDone /\ ch = 0]_vars
  /\ [](pc[Main] = "run_select" /\ ~opts.Signal => ch = 0 /\ ~notified)
  /\ (pc[Main] = "run_select" /\ (ctxDone \/ (opts.Signal /\ ch > 0)))
       ~> (pc[Main] = "stop_before" \/ (exited /\ ~opts.Signal))

\* A termination signal alone has unblocked Run: Stop was called on the signal
\* while the context is still not cancelled.
C11_Witness ==
  /\ top = "Run"
  /\ pc[Main] = "stop_before"
  /\ ~ctxDone
  /\ opts.Signal
  /\ \E k \in 1..Len(log) : log[k][1] = "Wait" /\ log[k][2] = "signal"

\* ------------------------------------------------------------------ C12

\* The thread is about to execute a step of Start, or one of Stop up to and
\* including Server.Stop.
AtStartStep == pc[Main] \in {"start_before", "start_server", "start_after"}
AtStopStep == pc[Main] \in {"stop_before", "stop_server"}

\* C12 as stated: no step of Start is executed before the one-time
\* initialization has completed, and no step of Stop is executed unless the
\* server has been started and not yet stopped.
C12_LifecycleGuarded ==
  /\ AtStartStep => once.done
  /\ AtStopStep => srvRunning

\* C12, amended: Start and Stop execute their steps whenever they are called;
\* only Run orders them. A Run executes the steps of Stop only after its own
\* Start has succeeded, so that the server has been started and not yet
\* stopped when that Stop begins, and it does so whether or not Init was ever
\* called.
C12_RunStopsWhatItStarted ==
  top = "Run" =>
    /\ AtStopStep => srvRunning
    /\ (StopCalls # {} \/ InStop) => StartSucceeded
    /\ \A k \in At("BeforeStop") \cup At("Server.Stop") \cup At("AfterStop") :
         \E j \in At("Server.Start") : j < k /\ Ok(log[j])

\* A Run on a service that was never initialized is about to stop the server
\* it has started.
C12_Witness ==
  /\ top = "Run"
  /\ pc[Main] = "stop_server"
  /\ srvRunning
  /\ ~once.done
  /\ fx.runs = 0

\* ------------------------------------------------------------------ C13

\* The Run calls made so far: each registers the debug handler once.
RunCalls == debugHandler

\* C13 as stated: over the lifetime of the service, whatever calls are made,
\* an account is generated once and a token installed once, no more, and both
\* have happened whenever the server is started.
C13_MintedOncePerProcess ==
  /\ auth.generated <= 1
  /\ auth.installed <= 1
  /\ (top = "Run" /\ At("Server.Start") # {}) => auth.generated = 1 /\ auth.installed = 1

\* C13, amended: each Run call generates at most one account and installs at
\* most one token, both before its Start; a Run that reaches Start has done
\* each exactly once. Over the lifetime there is one account for each Run call
\* that got that far, not one for the process, and none without a Run.
C13_MintedOncePerRun ==
  /\ auth.generated <= RunCalls
  /\ auth.installed <= auth.tokens
  /\ auth.tokens <= auth.generated
  /\ top # "Run" => At("Generate") = {} /\ At("Auth.Init") = {}
  /\ top = "Run" =>
       /\ Cardinality(At("Generate")) <= 1
       /\ Cardinality(At("Auth.Init")) <= 1
       /\ StartCalls # {} =>
            /\ Cardinality(At("Generate")) = 1
            /\ Cardinality(At("Auth.Init")) = 1
            /\ \A k \in StartCalls : \A j \in At("Generate") \cup At("Auth.Init") : j < k

\* The second Run of one service has generated a second account and installed
\* a second token, and is starting the server.
C13_Witness ==
  /\ top = "Run"
  /\ RunCalls = 2
  /\ auth.generated = 2
  /\ auth.installed = 2
  /\ pc[Main] = "start_server"

\* ------------------------------------------------------------------ C14

\* The main thread makes the first step of an Init call: from the call to
\* s.once.Do.
InitBegins == pc[Main] = "idle" /\ pc'[Main] = "once"

\* What Signal is after the options were applied in argument order: the value
\* of the last option given, the old value if none was given.
SignalAfter(as, old) == IF as = <<>> THEN old ELSE as[Len(as)].value

\* C14: the first step of every Init call, taken before the gate is consulted,
\* leaves the options as its overrides applied in argument order make them,
\* the later override of a field winning, and touches neither the gate nor a
\* step of the one-time sequence; and once the sequence has run, no step of any
\* call executes a one-time step or reopens the gate.
C14_OptionsBeforeGate ==
  [][/\ InitBegins =>
          /\ opts' = [opts EXCEPT !.Signal = SignalAfter(initOpts', opts.Signal)]
          /\ once' = once
          /\ fx' = fx
     /\ once.done => fx' = fx /\ once'.done]_vars

\* An Init call made after the one-time sequence has run has applied its two
\* overrides, which disagree, and is about to consult the gate: the second
\* override is in force and the sequence has still run once.
C14_Witness ==
  /\ pc[Main] = "once"
  /\ doneAtCall[Main]
  /\ Len(initOpts) = 2
  /\ initOpts[1].value # initOpts[2].value
  /\ opts.Signal = initOpts[2].value
  /\ fx.runs = 1

\* ------------------------------------------------------------------ C15

\* Word w occurs in name n: at some position of n the letters of w follow.
Occurs(w, n) ==
  \E i \in 1..Len(n) :
    /\ i + Len(w) - 1 <= Len(n)
    /\ \A j \in 1..Len(w) : n[i + j - 1] = w[j]

\* The role the documentation gives for a name.
RoleOf(n) ==
  IF Occurs(<<"a", "p", "i">>, n) THEN "api"
  ELSE IF Occurs(<<"w", "e", "b">>, n) THEN "web"
  ELSE "service"

\* C15: the role passed to Auth.Generate is "api" if the name contains "api",
\* otherwise "web" if it contains "web", otherwise "service", whatever else
\* the service has done; "foo-api", "foo-web", "foo" and "webfoo" get api, web,
\* service and web, and a name with both substrings gets api.
C15_RoleBySubstring ==
  auth.role # "" =>
    /\ auth.role = RoleOf(name)
    /\ name = <<"f", "o", "o", "-", "a", "p", "i">> => auth.role = "api"
    /\ name = <<"f", "o", "o", "-", "w", "e", "b">> => auth.role = "web"
    /\ name = <<"f", "o", "o">> => auth.role = "service"
    /\ name = <<"w", "e", "b", "f", "o", "o">> => auth.role = "web"
    /\ (Occurs(<<"a", "p", "i">>, name) /\ Occurs(<<"w", "e", "b">>, name)) => auth.role = "api"

\* The account of a service named "web-api" has been generated with role api.
C15_Witness ==
  /\ name = <<"w", "e", "b", "-", "a", "p", "i">>
  /\ pc[Main] = "auth_token"
  /\ auth.generated = 1
  /\ auth.role = "api"

\* ------------------------------------------------------------------ C16

\* The place of a layer in the client: 1 is the outermost, which a call
\* passes first; 0 if the client does not have the layer.
Depth(layer) ==
  LET at == {k \in 1..Len(opts.Client) : opts.Client[k] = layer}
  IN IF at = {} THEN 0 ELSE CHOOSE k \in at : \A j \in at : k <= j

\* C16: the client of the service has the three layers, each once, around the
\* client it was given: the auth layer outermost, so first on every call, the
\* trace layer inside it and the From-Service layer inside that; and the
\* server holds the handler wrappers in the order stats, trace, auth. No call
\* to the service changes either.
C16_MiddlewareOrder ==
  /\ Len(opts.Client) = 4
  /\ Depth("AuthClient") = 1
  /\ Depth("TraceCall") = 2
  /\ Depth("FromService") = 3
  /\ Depth("client") = 4
  /\ Len(opts.HandlerWrappers) = 3
  /\ opts.HandlerWrappers[1] = "HandlerStats"
  /\ opts.HandlerWrappers[2] = "TraceHandler"
  /\ opts.HandlerWrappers[3] = "AuthHandler"

\* The service has been initialized with options and its server started by
\* Run: the auth layer is still the first a call passes.
C16_Witness ==
  /\ once.done
  /\ top = "Run"
  /\ srvRunning
  /\ Head(opts.Client) = "AuthClient"
  /\ opts.Client[Len(opts.Client)] = "client"

\* ------------------------------------------------------------------ C17

\* Run has started the server, waits in its select, and the context is
\* cancelled.
CancelledWhileWaiting == top = "Run" /\ pc[Main] = "run_select" /\ ctxDone

\* Run has called Stop and has returned.
RunStoppedAndReturned == top = "Run" /\ pc[Main] = "ret" /\ StopCalls # {}

\* C17 as stated: once the context is cancelled under a Run that waits, the
\* Run executes Stop to its end and returns, whatever happens later.
C17_CancelLeadsToReturn == CancelledWhileWaiting ~> RunStoppedAndReturned

\* C17, amended: once the context is cancelled under a Run that waits, the Run
\* executes Stop to its end and returns, unless the process is ended first; the
\* only event that ends it is a termination signal arriving while no channel
\* is registered for signals, which cannot happen when signal listening is
\* enabled.
C17_CancelLeadsToReturnOrExit ==
  /\ CancelledWhileWaiting
       ~> (RunStoppedAndReturned \/ (exited /\ ~opts.Signal /\ ~sigHandled))
  /\ [][(top = "Run" /\ (InStop \/ pc[Main] = "run_select") /\ exited' # exited)
          => (~sigHandled /\ ~opts.Signal /\ pc' = pc)]_vars

\* With signal listening disabled, a Run unblocked by the cancelled context
\* has stopped the server and returned.
C17_Witness ==
  /\ RunStoppedAndReturned
  /\ ctxDone
  /\ ~opts.Signal
  /\ \E k \in At("Wait") : Who(log[k]) = "context"
  /\ \E k \in At("Server.Stop") : Ok(log[k])
  /\ ~srvRunning

\* ------------------------------------------------------------------ C18

\* The AfterStart hooks of the running call that have failed.
FailedAfterStart == {k \in At("AfterStart") : ~Ok(log[k])}

\* C18: when an AfterStart hook has failed, Server.Start had succeeded before
\* it, no later hook was run, Start returns or has returned that hook's error,
\* and neither Start nor the Run that called it waits for a trigger, calls
\* Stop, stops the server or runs a stop hook: the server is left started.
C18_AfterStartFailureLeavesServerUp ==
  \A k \in FailedAfterStart :
    /\ \E j \in At("Server.Start") : j < k /\ Ok(log[j])
    /\ k = Len(log)
    /\ ret = Err("AfterStart", Who(log[k]))
    /\ pc[Main] \in {"start_ret", "run_ret", "ret"}
    /\ At("Wait") = {} /\ StopCalls = {}
    /\ At("BeforeStop") = {} /\ At("Server.Stop") = {} /\ At("AfterStop") = {}
    /\ srvRunning

\* Run has returned the error of the second AfterStart hook, after the first
\* one succeeded, and the server is still started.
C18_Witness ==
  /\ top = "Run"
  /\ pc[Main] = "ret"
  /\ ret = Err("AfterStart", "B")
  /\ Cardinality(At("AfterStart")) = 2
  /\ srvRunning

\* ------------------------------------------------------------------ C19

\* The Init calls thread p has made, and those of them that have returned.
Returned(p) == IF pc[p] \in {"idle", "ret"} THEN calls[p] ELSE calls[p] - 1

\* A count added up over all threads.
SumOver(count(_)) ==
  LET sum[S \in SUBSET Procs] ==
        IF S = {} THEN 0
        ELSE LET p == CHOOSE q \in S : TRUE IN count(p) + sum[S \ {p}]
  IN sum[Procs]

CallsMade(p) == calls[p]

\* C19 as stated: the store table is bound and each collaborator is given the
\* client once by every Init call: at least as often as Init calls have
\* returned, at most as often as Init calls were made.
C19_WiringOnEveryInit ==
  /\ SumOver(Returned) <= Len(fx.table)
  /\ Len(fx.table) <= SumOver(CallsMade)
  /\ \A c \in Collaborators :
       SumOver(Returned) <= fx.wire[c] /\ fx.wire[c] <= SumOver(CallsMade)

\* C19, amended: the store table binding and the cross-wiring are steps of the
\* one-time sequence, behind the gate: they are executed only by the thread
\* inside the sequence, after the flags were parsed, together and once, and
\* an Init call that finds the sequence done finds them done and adds nothing.
C19_WiringInsideGate ==
  /\ Len(fx.table) <= 1
  /\ \A c \in Collaborators : fx.wire[c] = Len(fx.table)
  /\ Len(fx.table) = 1 => fx.runs = 1 /\ fx.cmdInit = 1
  /\ Len(fx.table) = 1 <=> (once.done \/ \E p \in Procs : pc[p] = "once_done")
  /\ \A p \in Procs : doneAtCall[p] => Len(fx.table) = 1
  /\ SumOver(Returned) > 0 => Len(fx.table) = 1

\* Three Init calls have returned, two of them made after the sequence was
\* done, and the table was bound and the collaborators wired once.
C19_Witness ==
  /\ SumOver(Returned) = 3
  /\ Cardinality({p \in Procs : doneAtCall[p]}) >= 2
  /\ Len(fx.table) = 1
  /\ \A c \in Collaborators : fx.wire[c] = 1

\* ------------------------------------------------------------------ C20

\* The plugin entries the loop has dealt with before the one it is at.
PluginsDone == SelectSeq(SubSeq(plugins, 1, plugIdx - 1), NonEmpty)

\* C20: when a plugin load, a plugin init or the flag parse has failed, the
\* process has exited with the executing thread still at that step: the
\* plugins before the failing one are loaded and initialised and no other,
\* nothing after the failing step was executed (no flag parse and no name
\* default after a plugin failure, no table binding and no wiring after any),
\* the gate has not been marked done, and no Init call has returned.
C20_FatalHaltsSequence ==
  fx.fatal # "" =>
    /\ exited
    /\ ~once.done
    /\ \A p \in Procs : ~InitReturned(p)
    /\ Cardinality({p \in Procs : pc[p] \in BodyLocs}) = 1
    /\ fx.table = <<>>
    /\ \A c \in Collaborators : fx.wire[c] = 0
    /\ fx.fatal = "plugin.Load" =>
         /\ \E p \in Procs : pc[p] = "plugins"
         /\ fx.inits = PluginsDone /\ fx.loads = PluginsDone
         /\ fx.cmdInit = 0 /\ cmdName = <<>>
    /\ fx.fatal = "plugin.Init" =>
         /\ \E p \in Procs : pc[p] = "plugins"
         /\ fx.inits = PluginsDone /\ fx.loads = Append(PluginsDone, plugins[plugIdx])
         /\ fx.cmdInit = 0 /\ cmdName = <<>>
    /\ fx.fatal = "Cmd.Init" =>
         /\ \E p \in Procs : pc[p] = "cmd"
         /\ fx.inits = SelectSeq(plugins, NonEmpty) /\ fx.loads = fx.inits
         /\ fx.cmdInit = 1

\* The init of the second plugin has failed, after the first was loaded and
\* initialised, while another thread waits for the sequence to end.
C20_Witness ==
  /\ fx.fatal = "plugin.Init"
  /\ Len(fx.loads) = 2
  /\ Len(fx.inits) = 1
  /\ exited
  /\ \E p \in Procs : pc[p] = "once_lock"

====
